---- MODULE Spec2Model ----
(***************************************************************************)
(* Model of src/src/datagenerator.py: DataGenerator.__init__,              *)
(* DataGenerator._intersecion_area and DataGenerator.gen_training_tensor.  *)
(*                                                                         *)
(* Arithmetic.  The code works on Python floats.  Every quantity of the    *)
(* x direction is kept here as an integer numerator over the denominator   *)
(* DX = 2 * cell_width, every quantity of the y direction over             *)
(* DY = 2 * cell_height, so that all divisions, floors, ceilings and       *)
(* comparisons of the code are computed exactly.  The inputs are chosen    *)
(* so that the float computation is exact too: every coordinate is a       *)
(* multiple of 64 and every cell size a power of two, so every quotient is *)
(* a dyadic fraction, which no rounding separates from a threshold.        *)
(*                                                                         *)
(* Names.  The method reads two names the module never binds: `logging`    *)
(* (line 173) and `bottom_full_y` (line 210).  Python looks both up in the *)
(* module globals when the line runs and raises NameError when the name    *)
(* is unbound.  The binding is kept as a part of the state                 *)
(* (globals_logging, globals_bottom_full_y); the source as written leaves  *)
(* both unbound, and the model also follows the lines behind them for an   *)
(* interpreter state in which they are bound.  The missing comma of        *)
(* line 23 is read as present, and self.POS_* as the POS_* of line 6.      *)
(***************************************************************************)
EXTENDS Integers, Sequences, FiniteSets, TLC

VARIABLES
    pc,                     \* position of the caller / of gen_training_tensor
    exc,                    \* the exception that ended the call, or "none"
    cell_width,             \* self.cell_width
    cell_height,            \* self.cell_height
    intersection_threshold, \* self.intersection_threshold, <<numerator, denominator>>
    globals_logging,        \* is the module global `logging` bound
    globals_bottom_full_y,  \* binding of the module global `bottom_full_y`, or Unbound
    annotations,            \* the list get_annotations returned
    idx,                    \* index (from 1) of the annotation of the for loop
    training_data,          \* the grid: <<row, column>> -> slot (0..4 -> value)
    warnings,               \* number of logging.warn calls made
    warned,                 \* did the last run of lines 172-177 call logging.warn
    writes,                 \* raw index pairs of the score accesses of the last step
    area_args,              \* arguments of _intersecion_area
    area_result             \* its result, or NoResult

vars == <<pc, exc, cell_width, cell_height, intersection_threshold,
          globals_logging, globals_bottom_full_y, annotations, idx,
          training_data, warnings, warned, writes, area_args, area_result>>

----------------------------------------------------------------------------
(* Program constants *)

PADDED_SIZE == 640
DEFAULT_LOCATION == 0
NO_OBJECT_WEIGHT == 0
HAS_OBJECT_WEIGHT == 1
bounding_box_count == 1

POS_SCORE == 0
POS_BOX_CENTER_X == 1
POS_BOX_CENTER_Y == 2
POS_BOX_WIDTH == 3
POS_BOX_HEIGHT == 4

(* Bounds of the model *)

MaxAnnotations == 2
MaxCoord == 2
MaxDim == 2

\* A name that is not bound, a result not yet computed, a grid not yet
\* allocated: the empty sequence; a bound name is <<value>>.
Unbound == << >>
NoResult == << >>
NoGrid == << >>

(* Inputs *)

\* 256 gives a 3 x 3 grid; 1024 is larger than PADDED_SIZE
CellSizes == {256, 1024}

\* 0, 1/2 and 7/10 (the default of line 23) lie in [0, 1]; 3/2 does not
Thresholds == {<<0, 1>>, <<1, 2>>, <<7, 10>>, <<3, 2>>}

BottomFullYBindings == {Unbound, <<0>>, <<1>>}

\* bbox = <<x, y, width, height>> in pixels (cell positions for a 256 cell)
Boxes ==
    { <<0, 0, 256, 256>>,       \* exactly cell (0,0)
      <<256, 256, 256, 256>>,   \* exactly cell (1,1)
      <<64, 64, 0, 0>>,         \* zero-size box inside cell (0,0)
      <<320, 64, 64, 128>>,     \* smaller than a cell, inside cell (row 0, col 1)
      <<128, 320, 0, 128>>,     \* margins of exactly 1/2 to the left and right
      <<64, 256, 448, 256>>,    \* owner col 1, reaches 3/4 into col 0, rows exact
      <<256, 64, 256, 448>>,    \* owner row 1, reaches 3/4 into row 0, cols exact
      <<64, 64, 448, 448>>,     \* owner (1,1), 3/4 into row 0 and col 0
      <<640, 0, 256, 256>>,     \* center right of the grid (column 3 of 3)
      <<128, 256, 896, 256>>,   \* owner col 2, extends past the grid on the right
      <<0, 0, 640, 640>> }      \* the whole canvas

AnnotationLists ==
    UNION { [1..n -> Boxes] : n \in 0..MaxAnnotations }

----------------------------------------------------------------------------
(* Helpers: Python's floor, ceil, max, min, range; numpy's indexing *)

Max(a, b) == IF a >= b THEN a ELSE b

Min(a, b) == IF a <= b THEN a ELSE b

\* floor(n / d) and ceil(n / d) for d > 0
Floor(n, d) == IF n >= 0 THEN n \div d ELSE -((-n + d - 1) \div d)

Ceil(n, d) == -Floor(-n, d)

\* range(a, b) as a sequence
Range(a, b) == [i \in 1..(b - a) |-> a + i - 1]

\* numpy accepts an index i on an axis of length n when -n <= i < n and
\* counts a negative one from the end; any other index raises IndexError.
IndexOk(i, n) == i >= -n /\ i < n

Resolve(i, n) == IF i < 0 THEN i + n ELSE i

----------------------------------------------------------------------------
(* _intersecion_area, lines 66-111 *)

IntersectionWidthUnclamped(lo, hi) == hi - lo

IntersectionWidth(lo, hi) == Max(0, hi - lo)

_intersecion_area(rect1_ul, rect1_dims, rect2_ul, rect2_dims) ==
    LET rect1_br == <<rect1_ul[1] + rect1_dims[1], rect1_ul[2] + rect1_dims[2]>>
        rect2_br == <<rect2_ul[1] + rect2_dims[1], rect2_ul[2] + rect2_dims[2]>>
        intersection_ul == <<Max(rect1_ul[1], rect2_ul[1]), Max(rect1_ul[2], rect2_ul[2])>>
        intersection_br == <<Min(rect1_br[1], rect2_br[1]), Min(rect1_br[2], rect2_br[2])>>
        intersection_width == IntersectionWidth(intersection_ul[1], intersection_br[1])
        intersection_height == IntersectionWidth(intersection_ul[2], intersection_br[2])
    IN  intersection_width * intersection_height

----------------------------------------------------------------------------
(* gen_training_tensor: the locals of lines 135-210 for a bbox b *)

DX == 2 * cell_width
DY == 2 * cell_height

cell_x_count == Ceil(PADDED_SIZE, cell_width)
cell_y_count == Ceil(PADDED_SIZE, cell_height)

\* abs_center_x = x + width / 2, over 2
abs_center_x2(b) == 2 * b[1] + b[3]
abs_center_y2(b) == 2 * b[2] + b[4]

cell_x_pos(b) == Floor(abs_center_x2(b), DX)
cell_y_pos(b) == Floor(abs_center_y2(b), DY)

\* over DX and DY
rel_center_x(b) == abs_center_x2(b) - cell_x_pos(b) * DX
rel_center_y(b) == abs_center_y2(b) - cell_y_pos(b) * DY
rel_width(b) == 2 * b[3]
rel_height(b) == 2 * b[4]

\* x1 = rel_center_x - rel_width / 2, ...: over DX and DY
x1(b) == rel_center_x(b) - b[3]
x2(b) == rel_center_x(b) + b[3]
y1(b) == rel_center_y(b) - b[4]
y2(b) == rel_center_y(b) + b[4]

left_full_x(b) == Ceil(x1(b), DX)
right_part_x(b) == Floor(x2(b), DX)
up_full_y(b) == Ceil(y1(b), DY)
bottom_part_y(b) == Floor(y2(b), DY)

left_part_x(b) == left_full_x(b) - 1
up_part_y(b) == up_full_y(b) - 1

\* margins: over DX and DY
left_margin(b) == left_full_x(b) * DX - x1(b)
right_margin(b) == x2(b) - right_part_x(b) * DX
up_margin(b) == up_full_y(b) * DY - y1(b)
\* line 210 reads the global bottom_full_y; used only when it is bound
bottom_margin(b) == y2(b) - globals_bottom_full_y[1] * DY

\* margin > self.intersection_threshold, the margin over the denominator d
Exceeds(margin, d) ==
    margin * intersection_threshold[2] > intersection_threshold[1] * d

----------------------------------------------------------------------------
(* gen_training_tensor: the grid and its accesses *)

\* line 138: np.full((cell_y_count, cell_x_count, bounding_box_count * 5),
\* DEFAULT_LOCATION); lines 141-142 change nothing, the two weights being equal.
NewGrid ==
    [cell \in (0..(cell_y_count - 1)) \X (0..(cell_x_count - 1)) |->
        [k \in 0..(bounding_box_count * 5 - 1) |-> DEFAULT_LOCATION]]

\* the cell of the grid a pair of accepted raw indices names
Cell(r, c) == <<Resolve(r, cell_y_count), Resolve(c, cell_x_count)>>

CellOk(r, c) == IndexOk(r, cell_y_count) /\ IndexOk(c, cell_x_count)

\* lines 180-183 with the score index in place of the center x index
PrimarySlotScoreIndex(slot, b) ==
    [slot EXCEPT ![POS_SCORE] = rel_center_x(b),
                 ![POS_BOX_CENTER_Y] = rel_center_y(b),
                 ![POS_BOX_WIDTH] = rel_width(b),
                 ![POS_BOX_HEIGHT] = rel_height(b)]

\* lines 180-183 on a slot that is cleared before it is written
PrimarySlotCleared(slot, b) ==
    [slot EXCEPT ![POS_SCORE] = NO_OBJECT_WEIGHT,
                 ![POS_BOX_CENTER_X] = rel_center_x(b),
                 ![POS_BOX_CENTER_Y] = rel_center_y(b),
                 ![POS_BOX_WIDTH] = rel_width(b),
                 ![POS_BOX_HEIGHT] = rel_height(b)]

\* lines 180-183: the four geometry fields of the owning cell; the score
\* field is not assigned
PrimarySlot(slot, b) ==
    [slot EXCEPT ![POS_BOX_CENTER_X] = rel_center_x(b),
                 ![POS_BOX_CENTER_Y] = rel_center_y(b),
                 ![POS_BOX_WIDTH] = rel_width(b),
                 ![POS_BOX_HEIGHT] = rel_height(b)]

\* the right-hand side of lines 215-243: max(<score read>, HAS_OBJECT_WEIGHT)
BorderValue(cur) == Max(cur, HAS_OBJECT_WEIGHT)

\* One score access of lines 202-243: the raw row and column written (r, c),
\* the raw row and column read by the right-hand side (rr, rc) when there is
\* a read, and the statement it comes from.
Op(dir, r, c, read, rr, rc) ==
    [dir |-> dir, r |-> r, c |-> c, read |-> read, rr |-> rr, rc |-> rc]

\* lines 197-202
FullOps(b) ==
    LET nx == right_part_x(b) - left_full_x(b)
        ny == bottom_part_y(b) - up_full_y(b)
    IN  IF nx > 0 /\ ny > 0
        THEN [k \in 1..(nx * ny) |->
                LET x == left_full_x(b) + ((k - 1) \div ny)
                    y == up_full_y(b) + ((k - 1) % ny)
                IN  Op("full", cell_y_pos(b) + y, cell_x_pos(b) + x, FALSE, 0, 0)]
        ELSE << >>

\* lines 212-215
LeftOps(b) ==
    IF Exceeds(left_margin(b), DX)
    THEN LET ys == Range(up_full_y(b), bottom_part_y(b))
         IN  [k \in 1..Len(ys) |->
                Op("left", cell_y_pos(b) + ys[k], left_part_x(b),
                   TRUE, cell_y_pos(b) + ys[k], left_part_x(b))]
    ELSE << >>

\* lines 218-221
RightOps(b) ==
    IF Exceeds(right_margin(b), DX)
    THEN LET ys == Range(up_full_y(b), bottom_part_y(b))
         IN  [k \in 1..Len(ys) |->
                Op("right", cell_y_pos(b) + ys[k], right_part_x(b),
                   TRUE, cell_y_pos(b) + ys[k], right_part_x(b))]
    ELSE << >>

\* lines 223-226
UpOps(b) ==
    IF Exceeds(up_margin(b), DY)
    THEN LET xs == Range(left_full_x(b), right_part_x(b))
         IN  [k \in 1..Len(xs) |->
                Op("up", up_part_y(b), cell_x_pos(b) + xs[k],
                   TRUE, up_part_y(b), left_part_x(b) + xs[k])]
    ELSE << >>

\* lines 228-231
BottomOps(b) ==
    IF Exceeds(bottom_margin(b), DY)
    THEN LET xs == Range(left_full_x(b), right_part_x(b))
         IN  [k \in 1..Len(xs) |->
                Op("bottom", bottom_part_y(b), cell_x_pos(b) + xs[k],
                   TRUE, bottom_part_y(b), cell_x_pos(b) + xs[k])]
    ELSE << >>

BorderOps(b) == LeftOps(b) \o RightOps(b) \o UpOps(b) \o BottomOps(b)

\* lines 233-243
CornerOps(b) ==
    (IF Exceeds(left_margin(b) * up_margin(b), DX * DY)
     THEN <<Op("left_up", up_part_y(b), left_part_x(b),
               TRUE, up_part_y(b), left_part_x(b))>>
     ELSE << >>)
    \o
    (IF Exceeds(left_margin(b) * bottom_margin(b), DX * DY)
     THEN <<Op("left_bottom", bottom_part_y(b), left_part_x(b),
               TRUE, bottom_part_y(b), left_part_x(b))>>
     ELSE << >>)
    \o
    (IF Exceeds(right_margin(b) * bottom_margin(b), DX * DY)
     THEN <<Op("right_bottom", bottom_part_y(b), right_part_x(b),
               TRUE, bottom_part_y(b), right_part_x(b))>>
     ELSE << >>)
    \o
    (IF Exceeds(right_margin(b) * up_margin(b), DX * DY)
     THEN <<Op("right_up", up_part_y(b), right_part_x(b),
               TRUE, up_part_y(b), right_part_x(b))>>
     ELSE << >>)

\* does numpy accept the indices of the access
OpOk(o) == CellOk(o.r, o.c) /\ (o.read => CellOk(o.rr, o.rc))

\* the grid after the access
ApplyOp(td, o) ==
    LET v == IF o.read THEN BorderValue(td[Cell(o.rr, o.rc)][POS_SCORE])
                       ELSE HAS_OBJECT_WEIGHT
    IN  [td EXCEPT ![Cell(o.r, o.c)][POS_SCORE] = v]

\* The accesses of ops from the k-th on, in order, up to the first one numpy
\* rejects: the grid reached, whether all were accepted, and how many were
\* attempted.
RECURSIVE ApplyOps(_, _, _)
ApplyOps(td, ops, k) ==
    IF k > Len(ops) THEN [td |-> td, ok |-> TRUE, n |-> Len(ops)]
    ELSE IF ~OpOk(ops[k]) THEN [td |-> td, ok |-> FALSE, n |-> k]
    ELSE ApplyOps(ApplyOp(td, ops[k]), ops, k + 1)

Attempted(ops, n) == {ops[i] : i \in 1..n}

----------------------------------------------------------------------------
(* The operations *)

Rects == (0..MaxCoord) \X (0..MaxCoord) \X (0..MaxDim) \X (0..MaxDim)

Init ==
    /\ pc = "new"
    /\ exc = "none"
    /\ cell_width = 0
    /\ cell_height = 0
    /\ intersection_threshold = <<0, 1>>
    /\ globals_logging \in BOOLEAN
    /\ globals_bottom_full_y \in BottomFullYBindings
    /\ annotations = << >>
    /\ idx = 0
    /\ training_data = NoGrid
    /\ warnings = 0
    /\ warned = FALSE
    /\ writes = {}
    /\ area_args = <<>>
    /\ area_result = NoResult

\* __init__, lines 16-38: the arguments are stored; nothing is checked
Construct ==
    /\ pc = "new"
    /\ \E cw \in CellSizes, ch \in CellSizes, t \in Thresholds :
        /\ cell_width' = cw
        /\ cell_height' = ch
        /\ intersection_threshold' = t
    /\ pc' = "constructed"
    /\ UNCHANGED <<exc, globals_logging, globals_bottom_full_y, annotations, idx,
                   training_data, warnings, warned, writes, area_args, area_result>>

\* gen_training_tensor, lines 131-142
GenTrainingTensor ==
    /\ pc = "constructed"
    /\ \E anns \in AnnotationLists : annotations' = anns
    /\ training_data' = NewGrid
    /\ idx' = 1
    /\ pc' = "loop"
    /\ UNCHANGED <<exc, cell_width, cell_height, intersection_threshold,
                   globals_logging, globals_bottom_full_y, warnings, warned,
                   writes, area_args, area_result>>

\* lines 144-183 for the next annotation
PrimaryWrite ==
    /\ pc = "loop"
    /\ idx <= Len(annotations)
    /\ LET b == annotations[idx]
           r == cell_y_pos(b)
           c == cell_x_pos(b)
       IN  IF ~CellOk(r, c)
           THEN \* line 172
                /\ pc' = "raised" /\ exc' = "IndexError"
                /\ UNCHANGED <<training_data, warnings, warned>>
           ELSE IF training_data[Cell(r, c)][POS_SCORE] # NO_OBJECT_WEIGHT
                   /\ ~globals_logging
           THEN \* line 173
                /\ pc' = "raised" /\ exc' = "NameError"
                /\ UNCHANGED <<training_data, warnings, warned>>
           ELSE /\ warned' = (training_data[Cell(r, c)][POS_SCORE] # NO_OBJECT_WEIGHT)
                /\ warnings' = IF warned' THEN warnings + 1 ELSE warnings
                /\ training_data' =
                      [training_data EXCEPT
                          ![Cell(r, c)] = PrimarySlot(training_data[Cell(r, c)], b)]
                /\ pc' = "full"
                /\ exc' = exc
    /\ writes' = {}
    /\ UNCHANGED <<cell_width, cell_height, intersection_threshold,
                   globals_logging, globals_bottom_full_y, annotations, idx,
                   area_args, area_result>>

\* the score accesses ops of one step, then on to pc value next
ScoreStep(ops, next) ==
    LET res == ApplyOps(training_data, ops, 1)
    IN  /\ training_data' = res.td
        /\ writes' = Attempted(ops, res.n)
        /\ IF res.ok
           THEN pc' = next /\ exc' = exc
           ELSE pc' = "raised" /\ exc' = "IndexError"

\* lines 185-202
FullCells ==
    /\ pc = "full"
    /\ ScoreStep(FullOps(annotations[idx]), "margins")
    /\ UNCHANGED <<cell_width, cell_height, intersection_threshold,
                   globals_logging, globals_bottom_full_y, annotations, idx,
                   warnings, warned, area_args, area_result>>

\* lines 204-210
Margins ==
    /\ pc = "margins"
    /\ IF globals_bottom_full_y = Unbound
       THEN pc' = "raised" /\ exc' = "NameError"
       ELSE pc' = "borders" /\ exc' = exc
    /\ writes' = {}
    /\ UNCHANGED <<cell_width, cell_height, intersection_threshold,
                   globals_logging, globals_bottom_full_y, annotations, idx,
                   training_data, warnings, warned, area_args, area_result>>

\* lines 212-231
Borders ==
    /\ pc = "borders"
    /\ ScoreStep(BorderOps(annotations[idx]), "corners")
    /\ UNCHANGED <<cell_width, cell_height, intersection_threshold,
                   globals_logging, globals_bottom_full_y, annotations, idx,
                   warnings, warned, area_args, area_result>>

\* lines 233-243, and back to the loop head
Corners ==
    /\ pc = "corners"
    /\ ScoreStep(CornerOps(annotations[idx]), "loop")
    /\ idx' = IF pc' = "loop" THEN idx + 1 ELSE idx
    /\ UNCHANGED <<cell_width, cell_height, intersection_threshold,
                   globals_logging, globals_bottom_full_y, annotations,
                   warnings, warned, area_args, area_result>>

\* line 245
Return ==
    /\ pc = "loop"
    /\ idx > Len(annotations)
    /\ pc' = "returned"
    /\ writes' = {}
    /\ UNCHANGED <<exc, cell_width, cell_height, intersection_threshold,
                   globals_logging, globals_bottom_full_y, annotations, idx,
                   training_data, warnings, warned, area_args, area_result>>

Next ==
    \/ Construct
    \/ GenTrainingTensor
    \/ PrimaryWrite
    \/ FullCells
    \/ Margins
    \/ Borders
    \/ Corners
    \/ Return

Spec == Init /\ [][Next]_vars

(* _intersecion_area on its own *)

AreaInit ==
    /\ pc = "area"
    /\ exc = "none"
    /\ cell_width = 0
    /\ cell_height = 0
    /\ intersection_threshold = <<0, 1>>
    /\ globals_logging = FALSE
    /\ globals_bottom_full_y = Unbound
    /\ annotations = << >>
    /\ idx = 0
    /\ training_data = NoGrid
    /\ warnings = 0
    /\ warned = FALSE
    /\ writes = {}
    /\ area_args \in Rects \X Rects
    /\ area_result = NoResult

IntersectionArea ==
    /\ pc = "area"
    /\ area_result = NoResult
    /\ area_result' =
          <<_intersecion_area(<<area_args[1][1], area_args[1][2]>>,
                              <<area_args[1][3], area_args[1][4]>>,
                              <<area_args[2][1], area_args[2][2]>>,
                              <<area_args[2][3], area_args[2][4]>>)>>
    /\ UNCHANGED <<pc, exc, cell_width, cell_height, intersection_threshold,
                   globals_logging, globals_bottom_full_y, annotations, idx,
                   training_data, warnings, warned, writes, area_args>>

AreaNext == IntersectionArea

AreaSpec == AreaInit /\ [][AreaNext]_vars

----------------------------------------------------------------------------
(* Vocabulary of the properties *)

Score(cell) == training_data[cell][POS_SCORE]

Allocated == training_data # NoGrid

Grid == DOMAIN training_data

\* the owning cell of a bbox: row floor(cy / cellHeight), column floor(cx / cellWidth)
OwningCell(b) == <<cell_y_pos(b), cell_x_pos(b)>>

CenterInCanvas(b) ==
    /\ abs_center_x2(b) >= 0 /\ abs_center_x2(b) < 2 * PADDED_SIZE
    /\ abs_center_y2(b) >= 0 /\ abs_center_y2(b) < 2 * PADDED_SIZE

\* the whole box lies inside the padded canvas
BoxInCanvas(b) ==
    /\ b[1] >= 0 /\ b[1] + b[3] <= PADDED_SIZE
    /\ b[2] >= 0 /\ b[2] + b[4] <= PADDED_SIZE

InGrid(r, c) == r >= 0 /\ r < cell_y_count /\ c >= 0 /\ c < cell_x_count

ThresholdValid ==
    /\ intersection_threshold[1] >= 0
    /\ intersection_threshold[1] <= intersection_threshold[2]

ConfigValid ==
    /\ cell_width <= PADDED_SIZE
    /\ cell_height <= PADDED_SIZE
    /\ ThresholdValid

\* the call is over
Ended == pc \in {"returned", "raised"}

\* the fractional margin of the box into the row below its covered rows
bottom_margin_frac(b) == y2(b) - bottom_part_y(b) * DY

\* rows and columns of the fully covered range, relative to the owning cell
CoveredRows(b) == {up_full_y(b) + i - 1 : i \in 1..(bottom_part_y(b) - up_full_y(b))}
CoveredCols(b) == {left_full_x(b) + i - 1 : i \in 1..(right_part_x(b) - left_full_x(b))}

\* the border cells of each direction, relative to the owning cell
LeftCells(b) == {<<cell_y_pos(b) + y, cell_x_pos(b) + left_part_x(b)>> : y \in CoveredRows(b)}
RightCells(b) == {<<cell_y_pos(b) + y, cell_x_pos(b) + right_part_x(b)>> : y \in CoveredRows(b)}
UpCells(b) == {<<cell_y_pos(b) + up_part_y(b), cell_x_pos(b) + x>> : x \in CoveredCols(b)}
BottomCells(b) == {<<cell_y_pos(b) + bottom_part_y(b), cell_x_pos(b) + x>> : x \in CoveredCols(b)}

\* every cell of cells that lies in the grid has the score v
AllScore(cells, v) == \A cell \in cells : InGrid(cell[1], cell[2]) => Score(cell) = v

----------------------------------------------------------------------------
(* C1: right after an annotation's primary record and fully covered cells   *)
(* are written (lines 172-202), its owning cell has the score              *)
(* HAS_OBJECT_WEIGHT and the four relative geometry values of that box.    *)
C1_PrimaryWrite ==
    (pc = "margins" /\ ConfigValid) =>
        LET b == annotations[idx]
            slot == training_data[OwningCell(b)]
        IN  /\ slot[POS_SCORE] = HAS_OBJECT_WEIGHT
            /\ slot[POS_BOX_CENTER_X] = rel_center_x(b)
            /\ slot[POS_BOX_CENTER_Y] = rel_center_y(b)
            /\ slot[POS_BOX_WIDTH] = rel_width(b)
            /\ slot[POS_BOX_HEIGHT] = rel_height(b)

(* C2: when every annotation's center lies inside the padded canvas, every  *)
(* propagated score access names a row in [0, cellRowCount) and a column in *)
(* [0, cellColCount).                                                       *)
C2_BoundsSafety ==
    (ConfigValid /\ \A i \in 1..Len(annotations) : CenterInCanvas(annotations[i])) =>
        \A o \in writes : InGrid(o.r, o.c)

(* C3: when a later annotation's center maps to the owning cell of an       *)
(* earlier one, a warning is emitted for it, the call still returns, and    *)
(* the returned grid holds the later annotation's geometry in that cell; no *)
(* warning is emitted for a cell no earlier annotation owned.               *)
C3_Collision ==
    /\ (/\ Len(annotations) = 2
        /\ ConfigValid
        /\ BoxInCanvas(annotations[1]) /\ BoxInCanvas(annotations[2])
        /\ OwningCell(annotations[1]) = OwningCell(annotations[2])
        /\ Ended)
       => /\ pc = "returned"
          /\ warnings = 1
          /\ training_data[OwningCell(annotations[2])] =
                PrimarySlot(training_data[OwningCell(annotations[2])], annotations[2])
    /\ (/\ pc = "full" /\ idx = 2
        /\ ConfigValid
        /\ BoxInCanvas(annotations[1]) /\ BoxInCanvas(annotations[2])
        /\ OwningCell(annotations[1]) = OwningCell(annotations[2]))
       => warned
    /\ (pc = "full" /\ idx = 1) => ~warned

(* C4: in every state of a call, from the allocation of the grid to its     *)
(* return, every cell's score is NO_OBJECT_WEIGHT or HAS_OBJECT_WEIGHT.     *)
C4_ScoreInvariant ==
    \A cell \in Grid : Score(cell) \in {NO_OBJECT_WEIGHT, HAS_OBJECT_WEIGHT}

\* a grid returned for two annotations, with present and absent cells
C4_Witness ==
    /\ pc = "returned"
    /\ Len(annotations) = 2
    /\ \E cell \in Grid : Score(cell) = HAS_OBJECT_WEIGHT
    /\ \E cell \in Grid : Score(cell) = NO_OBJECT_WEIGHT
    /\ \E cell \in Grid : training_data[cell][POS_BOX_WIDTH] > 1

\* the box covers exactly one cell
ExactCover(b) ==
    /\ b[1] % cell_width = 0 /\ b[2] % cell_height = 0
    /\ b[3] = cell_width /\ b[4] = cell_height

(* C5: for a single annotation whose box exactly covers one cell, under a   *)
(* threshold in [0, 1], the call returns, and the returned grid has         *)
(* HAS_OBJECT_WEIGHT in that cell and NO_OBJECT_WEIGHT in every other one.  *)
C5_ExactCover ==
    (/\ Len(annotations) = 1
     /\ ExactCover(annotations[1])
     /\ BoxInCanvas(annotations[1])
     /\ ConfigValid
     /\ Ended)
    => /\ pc = "returned"
       /\ \A cell \in Grid :
            Score(cell) = IF cell = OwningCell(annotations[1])
                          THEN HAS_OBJECT_WEIGHT ELSE NO_OBJECT_WEIGHT

\* present exactly when the margin is greater than the threshold
BorderMarked(cells, margin, d) ==
    IF Exceeds(margin, d)
    THEN AllScore(cells, HAS_OBJECT_WEIGHT)
    ELSE AllScore(cells, NO_OBJECT_WEIGHT)

(* C6: for a single annotation, once its border cells have been handled,   *)
(* in each of the four directions the border cells are present when the    *)
(* box's margin into them is greater than the threshold, and not present   *)
(* when the margin is at most the threshold (equal to it included).        *)
C6_ThresholdStrict ==
    (/\ Len(annotations) = 1
     /\ BoxInCanvas(annotations[1])
     /\ ConfigValid
     /\ pc \in {"corners", "raised"})
    => LET b == annotations[1]
       IN  /\ BorderMarked(LeftCells(b), left_margin(b), DX)
           /\ BorderMarked(RightCells(b), right_margin(b), DX)
           /\ BorderMarked(UpCells(b), up_margin(b), DY)
           /\ BorderMarked(BottomCells(b), bottom_margin_frac(b), DY)

(* C7: under an invalid configuration (cell size above the padded size, or  *)
(* threshold outside [0, 1]) construction ends in an error and no grid is   *)
(* ever allocated.                                                          *)
C7_FailFast ==
    ~ConfigValid => (pc = "raised" /\ ~Allocated)

\* the unit squares a rectangle <<x, y, w, h>> covers
UnitSquares(r) ==
    {<<i, j>> \in (0..(MaxCoord + MaxDim)) \X (0..(MaxCoord + MaxDim)) :
        /\ r[1] <= i /\ i + 1 <= r[1] + r[3]
        /\ r[2] <= j /\ j + 1 <= r[2] + r[4]}

TrueOverlap(r1, r2) == Cardinality(UnitSquares(r1) \cap UnitSquares(r2))

(* C8: _intersecion_area returns 0 for every pair of rectangles that share  *)
(* no area, whether separated on one axis, on both, or only touching.       *)
C8_ZeroOverlap ==
    (area_result # NoResult /\ TrueOverlap(area_args[1], area_args[2]) = 0)
        => area_result[1] = 0

\* separated on both axes at once
C8_Witness ==
    /\ area_result = <<0>>
    /\ area_args[1][1] + area_args[1][3] < area_args[2][1]
    /\ area_args[1][2] + area_args[1][4] < area_args[2][2]
    /\ area_args[1][3] > 0 /\ area_args[1][4] > 0
    /\ area_args[2][3] > 0 /\ area_args[2][4] > 0

\* the cells a statement is to update, relative to the owning cell
RelativeTarget(b, dir) ==
    CASE dir = "left_up" -> <<cell_y_pos(b) + up_part_y(b), cell_x_pos(b) + left_part_x(b)>>
      [] dir = "left_bottom" -> <<cell_y_pos(b) + bottom_part_y(b), cell_x_pos(b) + left_part_x(b)>>
      [] dir = "right_bottom" -> <<cell_y_pos(b) + bottom_part_y(b), cell_x_pos(b) + right_part_x(b)>>
      [] dir = "right_up" -> <<cell_y_pos(b) + up_part_y(b), cell_x_pos(b) + right_part_x(b)>>

RelativeTargets(b, dir) ==
    CASE dir = "left" -> LeftCells(b)
      [] dir = "right" -> RightCells(b)
      [] dir = "up" -> UpCells(b)
      [] dir = "bottom" -> BottomCells(b)
      [] dir = "full" -> {<<cell_y_pos(b) + y, cell_x_pos(b) + x>> :
                            y \in CoveredRows(b), x \in CoveredCols(b)}
      [] OTHER -> {RelativeTarget(b, dir)}

CornerDue(b, mx, my, dir) ==
    Exceeds(mx * my, DX * DY) =>
        AllScore({RelativeTarget(b, dir)}, HAS_OBJECT_WEIGHT)

(* C9: every border and corner score update reads and writes the cell at    *)
(* the owning cell's row and column plus the relative deltas, and once the  *)
(* call on a single annotation is over each corner cell whose product of    *)
(* margins exceeds the threshold is present.                                *)
C9_RelativeTargets ==
    /\ ConfigValid => \A o \in writes :
          /\ <<o.r, o.c>> \in RelativeTargets(annotations[idx], o.dir)
          /\ o.read => (o.rr = o.r /\ o.rc = o.c)
    /\ (/\ Len(annotations) = 1
        /\ BoxInCanvas(annotations[1])
        /\ ConfigValid
        /\ Ended)
       => LET b == annotations[1]
          IN  /\ CornerDue(b, left_margin(b), up_margin(b), "left_up")
              /\ CornerDue(b, left_margin(b), bottom_margin_frac(b), "left_bottom")
              /\ CornerDue(b, right_margin(b), bottom_margin_frac(b), "right_bottom")
              /\ CornerDue(b, right_margin(b), up_margin(b), "right_up")

(* C10: within one call, a cell whose score is HAS_OBJECT_WEIGHT keeps that *)
(* score in every later state.                                              *)
C10_NeverDowngraded ==
    [][\A cell \in Grid :
          Score(cell) = HAS_OBJECT_WEIGHT =>
              training_data'[cell][POS_SCORE] = HAS_OBJECT_WEIGHT]_vars

\* a later annotation was written into a cell that was already present, and
\* the cell is still present when the grid is returned
C10_Witness ==
    /\ pc = "returned"
    /\ warnings >= 1
    /\ Score(OwningCell(annotations[2])) = HAS_OBJECT_WEIGHT

====
